---- MODULE Spec2Model ----
(***************************************************************************)
(* Model of src/transaction.py: the Transaction engine, the command        *)
(* lifecycle state machine of CommandBase, the closure adapter Command,    *)
(* CommandAbort and the file commands Write / Delete / Copy / Move.        *)
(*                                                                         *)
(* The file system is a function from paths to contents.  Exceptions are   *)
(* modelled by the field exc of the record that every operation threads:   *)
(* once exc is set the rest of the Python call chain is skipped, exactly   *)
(* as an exception unwinds it.                                             *)
(***************************************************************************)
EXTENDS Integers, Sequences, FiniteSets, TLC

\* ------------------------------------------------------------------ bounds
MaxCmds == 2      \* longest history (Transaction.commands) explored
MaxDirs == 2      \* most staging directories ever created (scope entries)
MaxInst == 1      \* most command instances driven directly, without a transaction
MaxUndone == 1    \* most runs of one closure's rollback operation explored
DeepCmds == MaxCmds + 1   \* the history bound of the deeper exploration

\* ------------------------------------------------------------- input sets
Paths    == {"A", "B"}
NoFile   == "<absent>"
NewText  == "w"                        \* the payload of every Write
InitText(p) == IF p = "A" THEN "a" ELSE "b"
Contents == {"a", "b", NewText}

NoError  == "none"
ErrKinds == {"TransactionError", "TransactionAbortError", "CommandError",
             "OtherError"}

\* Descriptors of the commands a caller can construct.  CommandFileCopy's
\* constructor rejects src = dst (line 455).
Desc(k, t, s, pf) == [kind |-> k, target |-> t, src |-> s, pfail |-> pf]
WriteCmds(P)  == {Desc("Write", p, "-", FALSE) : p \in P}
DeleteCmds(P) == {Desc("Delete", p, "-", FALSE) : p \in P}
CopyCmds(PP)  == {Desc("Copy", pr[2], pr[1], FALSE) : pr \in PP}
MoveCmds(PP)  == {Desc("Move", pr[2], pr[1], FALSE) : pr \in PP}
ClosureCmds   == {Desc("Closure", "-", "-", b) : b \in BOOLEAN}
AbortCmds     == {Desc("Abort", "-", "-", FALSE)}
\* the commands submitted to a transaction: A is the source, B the target
\* (the initial files cover a present and a missing source and target)
Descs == WriteCmds({"B"}) \cup DeleteCmds({"B"}) \cup CopyCmds({<<"A", "B">>})
           \cup MoveCmds({<<"A", "B">>}) \cup ClosureCmds \cup AbortCmds
\* the commands driven directly, one instance at a time: every path
DistinctPairs == {pr \in Paths \X Paths : pr[1] # pr[2]}
AllDescs == WriteCmds(Paths) \cup DeleteCmds(Paths) \cup CopyCmds(DistinctPairs)
              \cup MoveCmds(DistinctPairs) \cup ClosureCmds \cup AbortCmds

FileKinds == {"Write", "Delete", "Copy", "Move"}

VARIABLES
  fs,        \* the target files: path -> content or NoFile
  fs0,       \* fs when the transaction object was constructed
  state,     \* Transaction.state
  safe,      \* Transaction.safe
  cmds,      \* the command instances created so far (sequence of records)
  commands,  \* Transaction.commands: the history, indexes into cmds
  temp_dir,  \* Transaction.temp_dir (0 is None)
  dirs,      \* the staging directories that exist on disk
  ndirs,     \* number of staging directories created so far
  bf,        \* instances whose backup file (_temp_copy) exists on disk
  exc,       \* exception propagating in the caller's scope body
  depth,     \* number of open with-scopes of the transaction
  rbLog,     \* history positions whose rollback the last abort() invoked
  cmLog,     \* history positions whose commit the last _commit() invoked
  cleanups,  \* number of calls of Transaction._cleanup
  last       \* the caller's last step: its name, the exception handed to
             \* __exit__ or to a catch, and the instance a command call was on

vars == <<fs, fs0, state, safe, cmds, commands, temp_dir, dirs, ndirs, bf,
          exc, depth, rbLog, cmLog, cleanups, last>>

\* ---------------------------------------------------------- file helpers
isfile(f, p) == p \in Paths /\ f[p] # NoFile

\* a new instance: CommandBase.__init__ (246-248), _CommandFileBase.__init__
\* (373-376); CommandAbort.__init__ (352-353) sets no lifecycle state
NewInst(d) ==
  [kind |-> d.kind, target |-> d.target, src |-> d.src, pfail |-> d.pfail,
   st |-> IF d.kind = "Abort" THEN "UNSET" ELSE "INIT",
   err |-> FALSE, tc |-> 0, bc |-> NoFile, undone |-> 0]

\* the record threaded through one call chain
Cur == [fs |-> fs, cmds |-> cmds, bf |-> bf, exc |-> NoError, ret |-> FALSE,
        state |-> state, commands |-> commands, temp_dir |-> temp_dir,
        dirs |-> dirs, ndirs |-> ndirs, rbLog |-> rbLog, cmLog |-> cmLog,
        cleanups |-> cleanups]

Raise(m, e) == [m EXCEPT !.exc = e]

\* os.path.isfile(self._temp_copy)
HasBackup(m, i) == m.cmds[i].tc # 0 /\ m.cmds[i].tc \in m.dirs /\ i \in m.bf

\* ------------------------------------------------ forward effect on files
\* what perform does to the target files once the lifecycle check passed:
\* Write 424-425, Delete 443-447, Copy 466-469, Move 496-499
Forward(f, d) ==
  CASE d.kind = "Write"  -> [f EXCEPT ![d.target] = NewText]
    [] d.kind = "Delete" -> IF isfile(f, d.target)
                            THEN [f EXCEPT ![d.target] = NoFile] ELSE f
    [] d.kind = "Copy"   -> IF isfile(f, d.src)
                            THEN [f EXCEPT ![d.target] = f[d.src]] ELSE f
    [] d.kind = "Move"   -> IF isfile(f, d.src)
                            THEN [f EXCEPT ![d.target] = f[d.src], ![d.src] = NoFile]
                            ELSE f
    [] OTHER             -> f

\* ----------------------------------------------------------------- perform
\* CommandBase.perform without its check of the lifecycle state
CommandBase_perform_Unchecked(m, i) == [m EXCEPT !.cmds[i].st = "PERFORMED"]

\* CommandBase.perform (250-262)
CommandBase_perform(m, i) ==
  IF m.cmds[i].st # "INIT"
  THEN Raise([m EXCEPT !.cmds[i].err = TRUE], "CommandError")
  ELSE [m EXCEPT !.cmds[i].st = "PERFORMED"]

\* _CommandFileBase.perform (378-389): back the target up when it exists;
\* mkstemp fails when the staging directory does not exist
CommandFileBase_perform(m, i, dir) ==
  LET b == CommandBase_perform(m, i)
      t == m.cmds[i].target
  IN  IF b.exc # NoError THEN b
      ELSE IF ~isfile(b.fs, t) THEN [b EXCEPT !.ret = FALSE]
      ELSE IF dir \notin b.dirs THEN Raise(b, "OtherError")
      ELSE [b EXCEPT !.cmds[i].tc = dir, !.cmds[i].bc = b.fs[t],
                     !.bf = @ \cup {i}, !.ret = TRUE]

\* CommandFileWrite.perform (420-425), CommandFileDelete.perform (442-447),
\* CommandFileCopy.perform (463-469), CommandFileMove.perform (493-499)
CommandFile_perform(m, i, dir) ==
  LET b == CommandFileBase_perform(m, i, dir)
  IN  IF b.exc # NoError THEN b
      ELSE [b EXCEPT !.fs = Forward(b.fs, b.cmds[i])]

\* Command.perform (334-336): the state machine first, then the callback,
\* which fails when the instance was built with a failing perform operation
Command_perform(m, i) ==
  LET b == CommandBase_perform(m, i)
  IN  IF b.exc # NoError THEN b
      ELSE IF b.cmds[i].pfail THEN Raise(b, "OtherError")
      ELSE b

\* CommandAbort.perform (355-356)
CommandAbort_perform(m, i) == Raise(m, "TransactionAbortError")

perform(m, i, dir) ==
  CASE m.cmds[i].kind \in FileKinds -> CommandFile_perform(m, i, dir)
    [] m.cmds[i].kind = "Closure"   -> Command_perform(m, i)
    [] OTHER                        -> CommandAbort_perform(m, i)

\* ---------------------------------------------------------------- rollback
\* CommandBase.rollback (264-279); ret is the returned flag
CommandBase_rollback(m, i) ==
  IF m.cmds[i].err THEN [m EXCEPT !.ret = TRUE]
  ELSE IF m.cmds[i].st # "PERFORMED" THEN Raise(m, "CommandError")
  ELSE [m EXCEPT !.ret = FALSE]

\* _CommandFileBase.rollback (391-400): move the backup over the target
CommandFileBase_rollback(m, i) ==
  LET b == CommandBase_rollback(m, i)
  IN  IF b.exc # NoError \/ b.ret THEN b
      ELSE IF ~HasBackup(b, i) THEN [b EXCEPT !.ret = FALSE]
      ELSE [b EXCEPT !.fs[b.cmds[i].target] = b.cmds[i].bc,
                     !.bf = @ \ {i}, !.ret = TRUE]

\* CommandFileWrite.rollback (427-435) and CommandFileCopy.rollback
\* (471-481): when nothing was restored, delete the file perform created
CommandFileWrite_rollback(m, i) ==
  LET b == CommandFileBase_rollback(m, i)
      t == m.cmds[i].target
  IN  IF b.exc # NoError \/ b.ret THEN b
      ELSE IF ~isfile(b.fs, t) THEN b
      ELSE [b EXCEPT !.fs[t] = NoFile]

CommandFileCopy_rollback(m, i) == CommandFileWrite_rollback(m, i)

\* Move.rollback restoring the destination only
CommandFileMove_rollback_KeepsMoved(m, i) == CommandFileBase_rollback(m, i)

\* CommandFileMove.rollback (501-507): the file at dst goes back to src
\* before the state machine is consulted
CommandFileMove_rollback(m, i) ==
  LET s  == m.cmds[i].src
      d  == m.cmds[i].target
      m1 == IF isfile(m.fs, d)
            THEN [m EXCEPT !.fs = [@ EXCEPT ![s] = m.fs[d], ![d] = NoFile]]
            ELSE m
  IN  CommandFileBase_rollback(m1, i)

\* Command.rollback (338-340)
Command_rollback(m, i) ==
  LET b == CommandBase_rollback(m, i)
  IN  IF b.exc # NoError \/ b.ret THEN b
      ELSE [b EXCEPT !.cmds[i].undone = @ + 1]

\* CommandAbort.rollback (358-359)
CommandAbort_rollback(m, i) == m

rollback(m, i) ==
  CASE m.cmds[i].kind = "Write"   -> CommandFileWrite_rollback(m, i)
    [] m.cmds[i].kind = "Delete"  -> CommandFileBase_rollback(m, i)
    [] m.cmds[i].kind = "Copy"    -> CommandFileCopy_rollback(m, i)
    [] m.cmds[i].kind = "Move"    -> CommandFileMove_rollback(m, i)
    [] m.cmds[i].kind = "Closure" -> Command_rollback(m, i)
    [] OTHER                      -> CommandAbort_rollback(m, i)

\* ------------------------------------------------------------------ commit
\* CommandBase.commit (281-297)
CommandBase_commit(m, i) ==
  IF m.cmds[i].st # "PERFORMED" THEN Raise(m, "CommandError")
  ELSE [m EXCEPT !.cmds[i].st = "COMMITTED"]

\* _CommandFileBase.commit removing the target in place of the backup
CommandFileBase_commit_RemovesTarget(m, i) ==
  LET b == CommandBase_commit(m, i)
  IN  IF b.exc # NoError THEN b
      ELSE IF ~HasBackup(b, i) THEN b
      ELSE [b EXCEPT !.fs[b.cmds[i].target] = NoFile]

\* _CommandFileBase.commit (402-409): delete the backup
CommandFileBase_commit(m, i) ==
  LET b == CommandBase_commit(m, i)
  IN  IF b.exc # NoError THEN b
      ELSE IF ~HasBackup(b, i) THEN b
      ELSE [b EXCEPT !.bf = @ \ {i}]

\* Command.commit (342-344); CommandAbort.commit (361-362)
Command_commit(m, i) == CommandBase_commit(m, i)

CommandAbort_commit(m, i) == m

commit(m, i) ==
  CASE m.cmds[i].kind \in FileKinds -> CommandFileBase_commit(m, i)
    [] m.cmds[i].kind = "Closure"   -> Command_commit(m, i)
    [] OTHER                        -> CommandAbort_commit(m, i)

\* ------------------------------------------------------------ Transaction
\* Transaction._cleanup (223-224): shutil.rmtree fails on a missing
\* directory (and on None)
Transaction_cleanup(m) ==
  IF m.temp_dir \notin m.dirs
  THEN Raise([m EXCEPT !.cleanups = @ + 1], "OtherError")
  ELSE [m EXCEPT !.dirs = @ \ {m.temp_dir},
                 !.bf = {i \in @ : m.cmds[i].tc # m.temp_dir},
                 !.cleanups = @ + 1]

\* the loop of Transaction.abort (143-144): positions k, k-1, .. 1 of the
\* history, stopping at the first rollback that raises
RECURSIVE abortSweep(_, _)
abortSweep(m, k) ==
  IF k = 0 THEN m
  ELSE LET r == rollback([m EXCEPT !.rbLog = Append(@, k)], m.commands[k])
       IN  IF r.exc # NoError THEN r ELSE abortSweep(r, k - 1)

\* abort sweeping again on a transaction that is already ABORTED
Transaction_abort_Unchecked(m) ==
  abortSweep([m EXCEPT !.state = "ABORTED", !.rbLog = <<>>], Len(m.commands))

\* Transaction.abort (132-144)
Transaction_abort(m) ==
  IF m.state = "ABORTED" THEN Raise(m, "TransactionError")
  ELSE abortSweep([m EXCEPT !.state = "ABORTED", !.rbLog = <<>>],
                  Len(m.commands))

\* Transaction._commit (154-156): positions k .. Len of the history
RECURSIVE commitSweep(_, _)
commitSweep(m, k) ==
  IF k > Len(m.commands) THEN m
  ELSE LET r == commit([m EXCEPT !.cmLog = Append(@, k)], m.commands[k])
       IN  IF r.exc # NoError THEN r ELSE commitSweep(r, k + 1)

Transaction_commit(m) == commitSweep([m EXCEPT !.cmLog = <<>>], 1)

\* __enter__ accepting every state
Transaction_enter_Unchecked(m) ==
  [m EXCEPT !.ndirs = @ + 1, !.temp_dir = m.ndirs + 1,
            !.dirs = @ \cup {m.ndirs + 1}, !.state = "RUNNING"]

\* Transaction.__enter__ (158-176)
Transaction_enter(m) ==
  IF m.state \in {"DONE", "ABORTED"} THEN Raise(m, "TransactionError")
  ELSE [m EXCEPT !.ndirs = @ + 1, !.temp_dir = m.ndirs + 1,
                 !.dirs = @ \cup {m.ndirs + 1}, !.state = "RUNNING"]

\* perform_command recording the command only once its perform succeeded
Transaction_perform_command_AppendsLast(m, i) ==
  IF m.state # "RUNNING" THEN Raise(m, "TransactionError")
  ELSE LET r == perform(m, i, m.temp_dir)
       IN  IF r.exc # NoError THEN r ELSE [r EXCEPT !.commands = Append(@, i)]

\* Transaction.perform_command (107-122) on instance i
Transaction_perform_command(m, i) ==
  IF m.state # "RUNNING" THEN Raise(m, "TransactionError")
  ELSE perform([m EXCEPT !.commands = Append(@, i)], i, m.temp_dir)

\* __exit__ intercepting usage errors like any other failure
Propagates_InterceptsUsage(e) == ~safe /\ e # "TransactionAbortError"

\* __exit__ aborting on any failure whatever the safety mode
Propagates_IgnoresSafe(e) == e = "TransactionError"

\* Transaction.__exit__ (203-212): the exceptions it hands back untouched
Propagates(e) ==
  \/ e = "TransactionError"
  \/ ~safe /\ e # "TransactionAbortError"

\* Transaction.__exit__ (178-221); e is exc_val (NoError for None); ret is
\* the returned flag, exc an exception raised by __exit__ itself
Transaction_exit(m, e) ==
  IF e = NoError THEN
    IF m.state = "ABORTED" THEN [Transaction_cleanup(m) EXCEPT !.ret = TRUE]
    ELSE IF m.state = "INIT" THEN Raise(m, "TransactionError")
    ELSE IF m.state = "DONE" THEN [m EXCEPT !.ret = TRUE]
    ELSE LET c == Transaction_commit(m)
         IN  IF c.exc # NoError THEN c
             ELSE [Transaction_cleanup([c EXCEPT !.state = "DONE"]) EXCEPT !.ret = TRUE]
  ELSE IF Propagates(e) THEN [m EXCEPT !.ret = FALSE]
  ELSE LET a == Transaction_abort(m)
       IN  IF a.exc # NoError THEN a
           ELSE [Transaction_cleanup(a) EXCEPT !.ret = TRUE]

\* what the caller of __exit__(e) sees: an exception raised by __exit__,
\* else e when the returned flag is false, else nothing
Escapes(m, e) ==
  IF m.exc # NoError THEN m.exc
  ELSE IF e # NoError /\ ~m.ret THEN e
  ELSE NoError

\* ------------------------------------------------------------------ actions
Commit(m, d, l) ==
  /\ fs' = m.fs /\ cmds' = m.cmds /\ bf' = m.bf /\ state' = m.state
  /\ commands' = m.commands /\ temp_dir' = m.temp_dir /\ dirs' = m.dirs
  /\ ndirs' = m.ndirs /\ rbLog' = m.rbLog /\ cmLog' = m.cmLog
  /\ cleanups' = m.cleanups
  /\ depth' = d
  /\ last' = l
  /\ UNCHANGED <<fs0, safe>>

Call(op, x, i) == [op |-> op, inx |-> x, id |-> i]

Init ==
  /\ fs \in {f \in [Paths -> Contents \cup {NoFile}] :
               \A p \in Paths : f[p] \in {NoFile, InitText(p)}}
  /\ fs0 = fs
  /\ safe \in BOOLEAN
  /\ state = "INIT"
  /\ cmds = <<>> /\ commands = <<>>
  /\ temp_dir = 0 /\ dirs = {} /\ ndirs = 0 /\ bf = {}
  /\ exc = NoError /\ depth = 0
  /\ rbLog = <<>> /\ cmLog = <<>>
  /\ cleanups = 0
  /\ last = Call("init", NoError, 0)

\* with transaction: -- the scope is entered
Enter ==
  /\ exc = NoError
  /\ state \in {"INIT", "RUNNING"} => ndirs < MaxDirs
  /\ LET m == Transaction_enter(Cur)
     IN  /\ exc' = m.exc
         /\ Commit(m, IF m.exc = NoError THEN depth + 1 ELSE depth,
                   Call("enter", NoError, 0))

\* transaction.perform_command(c) with a newly constructed command c
SubmitNewUpTo(d, n) ==
  /\ exc = NoError
  /\ Len(commands) < n
  /\ LET i == Len(cmds) + 1
         m == Transaction_perform_command(
                [Cur EXCEPT !.cmds = Append(@, NewInst(d))], i)
     IN  /\ exc' = m.exc
         /\ Commit(IF state = "RUNNING" THEN m ELSE [m EXCEPT !.cmds = cmds],
                   depth, Call("perform", NoError, i))

SubmitNew(d) == SubmitNewUpTo(d, MaxCmds)

\* transaction.perform_command(c) with an instance c submitted before
ResubmitUpTo(i, n) ==
  /\ exc = NoError
  /\ Len(commands) < n
  /\ LET m == Transaction_perform_command(Cur, i)
     IN  /\ exc' = m.exc
         /\ Commit(m, depth, Call("perform", NoError, i))

Resubmit(i) == ResubmitUpTo(i, MaxCmds)

\* transaction.abort()
Abort ==
  /\ exc = NoError
  /\ LET m == Transaction_abort(Cur)
     IN  /\ exc' = m.exc
         /\ Commit(m, depth, Call("abort", NoError, 0))

\* the scope body raises e itself
RaiseInBody(e) ==
  /\ exc = NoError
  /\ depth > 0
  /\ exc' = e
  /\ Commit(Cur, depth, Call("raise", NoError, 0))

\* the caller catches the propagating exception and goes on
Catch ==
  /\ exc # NoError
  /\ exc' = NoError
  /\ Commit(Cur, depth, Call("catch", exc, 0))

\* the scope body ends: __exit__(None, None, None)
ExitNormal ==
  /\ exc = NoError
  /\ depth > 0
  /\ LET m == Transaction_exit(Cur, NoError)
     IN  /\ exc' = Escapes(m, NoError)
         /\ Commit(m, depth - 1, Call("exit", NoError, 0))

\* an exception leaves the scope body: __exit__(type, exc, tb)
ExitExc ==
  /\ exc # NoError
  /\ depth > 0
  /\ LET m == Transaction_exit(Cur, exc)
     IN  /\ exc' = Escapes(m, exc)
         /\ Commit(m, depth - 1, Call("exit", exc, 0))

Next ==
  \/ Enter
  \/ \E d \in Descs : SubmitNew(d)
  \/ \E i \in 1..Len(cmds) : Resubmit(i)
  \/ Abort
  \/ \E e \in {"OtherError", "TransactionAbortError", "TransactionError"} : RaiseInBody(e)
  \/ Catch
  \/ ExitNormal
  \/ ExitExc

Spec == Init /\ [][Next]_vars

\* the same caller with one more command in the history
NextDeep ==
  \/ Enter
  \/ \E d \in Descs : SubmitNewUpTo(d, DeepCmds)
  \/ \E i \in 1..Len(cmds) : ResubmitUpTo(i, DeepCmds)
  \/ Abort
  \/ \E e \in {"OtherError", "TransactionAbortError", "TransactionError"} : RaiseInBody(e)
  \/ Catch
  \/ ExitNormal
  \/ ExitExc

SpecDeep == Init /\ [][NextDeep]_vars

TypeOK ==
  /\ state \in {"INIT", "RUNNING", "DONE", "ABORTED"}
  /\ exc \in ErrKinds \cup {NoError}
  /\ depth \in 0..MaxDirs
  /\ Len(commands) <= DeepCmds

\* ------------------------------------------------------------- properties
\* every history entry is its own instance (no instance submitted twice)
Fresh(h) == \A i, j \in 1..Len(h) : i # j => h[i] # h[j]

\* the forward effects of the history h over instances c, in submission
\* order, applied to the files f
RECURSIVE ApplyAll(_, _, _, _)
ApplyAll(f, c, h, k) ==
  IF k > Len(h) THEN f ELSE ApplyAll(Forward(f, c[h[k]]), c, h, k + 1)

NoneCommitted == \A k \in 1..Len(commands) : cmds[commands[k]].st # "COMMITTED"

\* C1: a transaction of fresh command instances that was aborted while
\* running (explicitly, by an abort command or by a failure in safe mode)
\* leaves every path's existence and content as it was before it began.
C1_AbortRestoresFiles ==
  (state = "ABORTED" /\ Fresh(commands) /\ NoneCommitted /\ exc = NoError)
    => fs = fs0

\* C2: when the scope of a running transaction of fresh command instances
\* exits normally, the transaction is DONE and the files are the initial
\* files with every command's forward effect applied in submission order.
C2_CommitKeepsForwardEffects ==
  [][(last'.op = "exit" /\ last'.inx = NoError /\ state = "RUNNING"
        /\ Fresh(commands))
       => (state' = "DONE" /\ exc' = NoError
             /\ fs' = ApplyAll(fs0, cmds', commands', 1))]_vars

C2_Witness ==
  /\ state = "DONE" /\ last.op = "exit" /\ last.inx = NoError
  /\ Len(commands) = 2 /\ Fresh(commands)
  /\ cmds[commands[1]].kind = "Move" /\ cmds[commands[2]].kind = "Write"
  /\ fs # fs0 /\ fs0["A"] # NoFile /\ fs0["B"] # NoFile

\* C3: after every exit of an entered scope the staging directory is gone,
\* and for a transaction entered once it was removed by exactly one cleanup.
C3_StagingRemovedOnEveryExit ==
  last.op = "exit" => (temp_dir \notin dirs /\ (ndirs = 1 => cleanups = 1))

\* C4: in safe mode a lifecycle error signalled by perform_command inside
\* the scope is caught by scope exit, the transaction ends ABORTED and the
\* files are back to their content before the transaction.
C4_LifecycleErrorRestores ==
  [][(safe /\ last.op = "perform" /\ exc = "CommandError" /\ last'.op = "exit")
       => (exc' = NoError /\ state' = "ABORTED" /\ fs' = fs0)]_vars

\* the history positions n, n-1, .. 1
RECURSIVE Reversed(_)
Reversed(n) == IF n = 0 THEN <<>> ELSE <<n>> \o Reversed(n - 1)

\* C5: the sweep of abort() invokes rollback once on every history entry, in
\* exact reverse submission order.
C5_AbortSweepsAllInReverse ==
  (state = "ABORTED" /\ last.op \in {"abort", "exit"})
    => rbLog = Reversed(Len(commands))

\* C6: an abort signal leaving the scope of a RUNNING transaction, in safe
\* and in unsafe mode, rolls back every history command, sets the state to
\* ABORTED and is swallowed.
C6_AbortSignalAlwaysHonoured ==
  [][(exc = "TransactionAbortError" /\ state = "RUNNING" /\ last'.op = "exit")
       => (state' = "ABORTED" /\ exc' = NoError
             /\ rbLog' = Reversed(Len(commands)))]_vars

\* C7: in unsafe mode a failure that is neither a usage error nor an abort
\* signal leaves the scope unchanged: it propagates, no rollback runs, no
\* file changes and the transaction state stays as it was.
C7_UnsafeFailurePropagates ==
  [][(~safe /\ exc \in {"OtherError", "CommandError"} /\ last'.op = "exit")
       => (exc' = exc /\ fs' = fs /\ cmds' = cmds /\ bf' = bf
             /\ state' = state /\ rbLog' = rbLog)]_vars

C7_Witness ==
  /\ ~safe /\ last.op = "exit" /\ last.inx = "OtherError" /\ exc = "OtherError"
  /\ state = "RUNNING" /\ Len(commands) >= 2 /\ fs # fs0 /\ rbLog = <<>>

\* C8: a usage error leaving the scope propagates in safe and in unsafe
\* mode, and scope exit neither rolls back nor commits anything.
C8_UsageErrorNeverIntercepted ==
  [][(exc = "TransactionError" /\ last'.op = "exit")
       => (exc' = "TransactionError" /\ fs' = fs /\ cmds' = cmds /\ bf' = bf
             /\ state' = state /\ rbLog' = rbLog /\ cmLog' = cmLog
             /\ dirs' = dirs)]_vars

C8_Witness ==
  /\ safe /\ last.op = "exit" /\ last.inx = "TransactionError"
  /\ exc = "TransactionError" /\ state = "RUNNING"
  /\ Len(commands) >= 1 /\ fs # fs0 /\ rbLog = <<>> /\ cmLog = <<>>

\* ------------------------------------------- commands driven one by one
\* The caller constructs command instances and calls perform / rollback /
\* commit on them itself, handing perform an existing staging directory;
\* every exception is caught by the caller (exc shows the last outcome).
InitCmd ==
  /\ fs \in {f \in [Paths -> Contents \cup {NoFile}] :
               \A p \in Paths : f[p] \in {NoFile, InitText(p)}}
  /\ fs0 = fs
  /\ safe = TRUE
  /\ state = "INIT"
  /\ cmds = <<>> /\ commands = <<>>
  /\ temp_dir = 1 /\ dirs = {1} /\ ndirs = 1 /\ bf = {}
  /\ exc = NoError /\ depth = 0
  /\ rbLog = <<>> /\ cmLog = <<>>
  /\ cleanups = 0
  /\ last = Call("init", NoError, 0)

\* c = Command(...), CommandAbort(), CommandFileWrite(...), ...
ConstructUpTo(d, n) ==
  /\ Len(cmds) < n
  /\ exc' = NoError
  /\ Commit([Cur EXCEPT !.cmds = Append(@, NewInst(d))], depth,
            Call("construct", NoError, Len(cmds) + 1))

Construct(d) == ConstructUpTo(d, MaxInst)

\* c.perform(temp_dir)
DirectPerform(i) ==
  LET m == perform(Cur, i, temp_dir)
  IN  /\ exc' = m.exc
      /\ Commit(m, depth, Call("perform", NoError, i))

\* c.rollback()
DirectRollback(i) ==
  /\ cmds[i].undone < MaxUndone
  /\ LET m == rollback(Cur, i)
     IN  /\ exc' = m.exc
         /\ Commit(m, depth, Call("rollback", NoError, i))

\* c.commit()
DirectCommit(i) ==
  LET m == commit(Cur, i)
  IN  /\ exc' = m.exc
      /\ Commit(m, depth, Call("commit", NoError, i))

NextCmd ==
  \/ \E d \in AllDescs : Construct(d)
  \/ \E i \in 1..Len(cmds) : DirectPerform(i)
  \/ \E i \in 1..Len(cmds) : DirectRollback(i)
  \/ \E i \in 1..Len(cmds) : DirectCommit(i)

SpecCmd == InitCmd /\ [][NextCmd]_vars

\* the instance the last call was made on delegates to CommandBase
OnTracked(i) == i \in 1..Len(cmds) /\ cmds[i].kind # "Abort"

\* C9: perform on an instance that is not in INIT signals a lifecycle error
\* and applies no forward effect, and no instance ever returns to INIT.
C9_PerformAtMostOnce ==
  [][\A i \in 1..Len(cmds) :
       /\ (last'.op = "perform" /\ last'.id = i /\ OnTracked(i)
             /\ cmds[i].st # "INIT")
            => (exc' = "CommandError" /\ fs' = fs /\ bf' = bf
                  /\ cmds'[i].st = cmds[i].st)
       /\ (OnTracked(i) /\ cmds[i].st # "INIT") => cmds'[i].st # "INIT"]_vars

C9_Witness ==
  /\ last.op = "perform" /\ exc = "CommandError"
  /\ OnTracked(last.id) /\ cmds[last.id].kind = "Delete"
  /\ cmds[last.id].st = "COMMITTED" /\ cmds[last.id].err
  /\ fs0[cmds[last.id].target] # NoFile /\ fs[cmds[last.id].target] = NoFile

\* C10: rollback or commit on an instance still in INIT signals a lifecycle
\* error and changes no file and no command state.
C10_NoUndoBeforePerform ==
  [][\A i \in 1..Len(cmds) :
       (last'.op \in {"rollback", "commit"} /\ last'.id = i /\ OnTracked(i)
          /\ cmds[i].st = "INIT")
         => (exc' = "CommandError" /\ fs' = fs /\ cmds' = cmds)]_vars

\* C11: on any instance at most one of rollback and commit ever succeeds, and
\* only after perform: a successful rollback leaves the instance ROLLEDBACK,
\* a successful commit leaves it COMMITTED, and from either state every
\* later rollback or commit signals a lifecycle error.
C11_RollbackOrCommitOnce ==
  [][\A i \in 1..Len(cmds) :
       (last'.op \in {"rollback", "commit"} /\ last'.id = i /\ OnTracked(i))
         => /\ (exc' = NoError /\ last'.op = "rollback")
                 => (cmds[i].st = "PERFORMED" /\ cmds'[i].st = "ROLLEDBACK")
            /\ (exc' = NoError /\ last'.op = "commit")
                 => (cmds[i].st = "PERFORMED" /\ cmds'[i].st = "COMMITTED")
            /\ cmds[i].st \in {"ROLLEDBACK", "COMMITTED"}
                 => exc' = "CommandError"]_vars

\* C12: perform_command outside RUNNING signals a usage error, appends
\* nothing to the history and does not invoke the command's perform; while
\* RUNNING the command is appended to the end of the history and its
\* perform invoked, so a command whose perform fails is still in the history.
C12_PerformCommandGuardAndAppend ==
  [][last'.op = "perform"
       => /\ state # "RUNNING"
               => /\ exc' = "TransactionError"
                  /\ commands' = commands /\ cmds' = cmds
                  /\ fs' = fs /\ bf' = bf /\ state' = state
          /\ state = "RUNNING"
               => /\ commands' = Append(commands, last'.id)
                  /\ last'.id \in 1..Len(cmds')
                  /\ exc' # "TransactionError"
                  /\ exc' # NoError \/ cmds'[last'.id].st = "PERFORMED"]_vars

C12_Witness ==
  /\ last.op = "perform" /\ state = "RUNNING"
  /\ exc = "OtherError"
  /\ Len(commands) = 2 /\ commands[2] = last.id
  /\ cmds[last.id].kind = "Closure" /\ cmds[last.id].pfail

\* C13: scope entry succeeds only from INIT or RUNNING and leaves the state
\* RUNNING with a staging directory present; from DONE or ABORTED it
\* signals a usage error, keeps the state and creates no staging directory.
C13_EnterOnlyFromInitOrRunning ==
  [][last'.op = "enter"
       => /\ exc' = NoError <=> state \in {"INIT", "RUNNING"}
          /\ exc' = NoError
               => state' = "RUNNING" /\ temp_dir' \in dirs' /\ depth' = depth + 1
          /\ state \in {"DONE", "ABORTED"}
               => /\ exc' = "TransactionError" /\ state' = state
                  /\ dirs' = dirs /\ ndirs' = ndirs /\ temp_dir' = temp_dir
                  /\ depth' = depth]_vars

C13_Witness ==
  /\ last.op = "enter" /\ exc = "TransactionError"
  /\ state = "ABORTED" /\ ndirs = 1 /\ ndirs < MaxDirs

\* C14: abort() on an ABORTED transaction signals a usage error and invokes
\* no rollback; hence the sweep runs at most once per transaction (nothing
\* is swept before the state is ABORTED, nothing after), it visits every
\* history position at most once, and no command's undo runs twice.
C14_AbortSweepsAtMostOnce ==
  [][/\ (state = "ABORTED" /\ last'.op = "abort")
          => /\ exc' = "TransactionError"
             /\ rbLog' = rbLog /\ cmds' = cmds /\ fs' = fs /\ bf' = bf
     /\ state = "ABORTED"
          => /\ state' = "ABORTED" /\ rbLog' = rbLog
             /\ Len(cmds') = Len(cmds)
             /\ \A i \in 1..Len(cmds) : cmds'[i].undone = cmds[i].undone
     /\ state' # "ABORTED"
          => rbLog' = <<>> /\ \A i \in 1..Len(cmds') : cmds'[i].undone = 0
     /\ \A j, k \in 1..Len(rbLog') : j # k => rbLog'[j] # rbLog'[k]
     /\ \A i \in 1..Len(cmds') : cmds'[i].undone <= 1]_vars

C14_Witness ==
  /\ last.op = "abort" /\ exc = "TransactionError" /\ state = "ABORTED"
  /\ Len(rbLog) = 2
  /\ \E i \in 1..Len(cmds) : cmds[i].undone = 1

\* C15: DONE and ABORTED are terminal: once the state is DONE or ABORTED no
\* enter, perform_command, abort or exit changes it, and the only
\* transitions ever taken are INIT to RUNNING, RUNNING to DONE and RUNNING
\* to ABORTED.
C15_TerminalStates ==
  [][/\ state \in {"DONE", "ABORTED"} => state' = state
     /\ state' # state
          => <<state, state'>> \in {<<"INIT", "RUNNING">>,
                                    <<"RUNNING", "DONE">>,
                                    <<"RUNNING", "ABORTED">>}]_vars

\* C16: a normal scope exit of a RUNNING transaction commits every history
\* command exactly once in submission order and then sets DONE; of an
\* ABORTED transaction it commits nothing and leaves ABORTED; of a DONE
\* transaction it commits nothing and rolls nothing back.
C16_NormalExitCommitsAllInOrder ==
  [][(last'.op = "exit" /\ last'.inx = NoError)
       => /\ state = "RUNNING"
               => /\ cmLog' = [k \in 1..Len(commands) |-> k]
                  /\ state' = "DONE"
          /\ state \in {"ABORTED", "DONE"}
               => /\ state' = state /\ cmLog' = cmLog /\ rbLog' = rbLog
                  /\ cmds' = cmds /\ fs' = fs]_vars

\* ------------------------------------------- one-shot execute operations
\* The caller constructs command instances and hands them to
\* Transaction.execute (safe mode on) or calls execute() on one of them;
\* every call wraps a new Transaction object.
ExecInst == MaxInst + 1

\* Transaction.perform_commands (124-130): positions k .. Len(seq) of seq,
\* stopping at the first perform_command that raises
RECURSIVE Transaction_perform_commands(_, _, _)
Transaction_perform_commands(m, seq, k) ==
  IF k > Len(seq) THEN m
  ELSE LET r == Transaction_perform_command(m, seq[k])
       IN  IF r.exc # NoError THEN r
           ELSE Transaction_perform_commands(r, seq, k + 1)

\* Transaction.__init__ (68-83): a new transaction object
Transaction_init(m) ==
  [m EXCEPT !.state = "INIT", !.commands = <<>>, !.temp_dir = 0,
            !.rbLog = <<>>, !.cmLog = <<>>]

\* the with statement of execute up to the end of its body (94-95)
ExecuteBody(m, seq) ==
  Transaction_perform_commands(Transaction_enter(Transaction_init(m)), seq, 1)

\* the end of execute (94-97, 314-316) after the body left b: __exit__,
\* then return transaction.state == TransactionState.DONE; exc is what
\* escapes the with statement, ret the returned value
ExecuteExit(b) ==
  LET x == Transaction_exit([b EXCEPT !.exc = NoError], b.exc)
  IN  [x EXCEPT !.exc = Escapes(x, b.exc),
                !.ret = (Escapes(x, b.exc) = NoError /\ x.state = "DONE")]

\* the record of an execute call: the exception that ended the body, the
\* number of commands whose perform completed, the returned value
Executed(b, r) ==
  [op |-> "execute", inx |-> b.exc,
   id |-> IF b.exc = NoError THEN Len(b.commands) ELSE Len(b.commands) - 1,
   ret |-> r.ret]

InitExec ==
  /\ fs \in {f \in [Paths -> Contents \cup {NoFile}] :
               \A p \in Paths : f[p] \in {NoFile, InitText(p)}}
  /\ fs0 = fs
  /\ safe = TRUE
  /\ state = "INIT"
  /\ cmds = <<>> /\ commands = <<>>
  /\ temp_dir = 0 /\ dirs = {} /\ ndirs = 0 /\ bf = {}
  /\ exc = NoError /\ depth = 0
  /\ rbLog = <<>> /\ cmLog = <<>>
  /\ cleanups = 0
  /\ last = Call("init", NoError, 0)

\* Transaction.execute(seq) (85-97)
Execute(seq) ==
  /\ ndirs < MaxDirs
  /\ \E b \in {ExecuteBody(Cur, seq)} :
       \E m \in {ExecuteExit(b)} :
         /\ exc' = m.exc
         /\ Commit(m, depth, Executed(b, m))

\* c.execute() (299-316): a transaction around this one command
ExecuteSelf(i) ==
  /\ ndirs < MaxDirs
  /\ \E b \in {ExecuteBody(Cur, <<i>>)} :
       \E m \in {ExecuteExit(b)} :
         /\ exc' = m.exc
         /\ Commit(m, depth, Executed(b, m))

NextExec ==
  \/ \E d \in Descs : ConstructUpTo(d, ExecInst)
  \/ \E n \in 0..MaxCmds : \E seq \in [1..n -> 1..Len(cmds)] : Execute(seq)
  \/ \E i \in 1..Len(cmds) : ExecuteSelf(i)

SpecExec == InitExec /\ [][NextExec]_vars

\* C17: Transaction.execute in safe mode and CommandBase.execute return
\* true exactly when the wrapping transaction ended in DONE, which is
\* exactly when every submitted command's perform completed without a
\* failure or an abort signal; they return false when it ended in ABORTED,
\* and then every submitted command that was performed has been rolled
\* back: the files are as before the call and the rollback operation of
\* every performed closure command has run.
C17_ExecuteReportsDone ==
  [][last'.op = "execute"
       => /\ exc' = NoError
          /\ last'.ret <=> state' = "DONE"
          /\ state' = "DONE" <=> last'.inx = NoError
          /\ ~last'.ret
               => /\ state' = "ABORTED"
                  /\ fs' = fs
                  /\ \A k \in 1..last'.id :
                       cmds[commands'[k]].kind = "Closure"
                         => cmds'[commands'[k]].undone
                              = cmds[commands'[k]].undone + 1]_vars

\* C18: for Copy and Move whose source file is missing at perform time,
\* perform raises nothing and leaves the command PERFORMED, and a following
\* rollback raises nothing and leaves every path with the existence and
\* content it had before perform.
C18_MissingSourceRollbackIsNoOp ==
  [][\A i \in 1..Len(cmds) :
       (/\ last'.op = "perform" /\ last'.id = i
        /\ cmds[i].kind \in {"Copy", "Move"}
        /\ cmds[i].st = "INIT"
        /\ ~isfile(fs, cmds[i].src))
         => /\ exc' = NoError
            /\ cmds'[i].st = "PERFORMED"
            /\ rollback(Cur', i).exc = NoError
            /\ rollback(Cur', i).fs = fs]_vars

\* C19: for a Move whose source is present, perform followed by rollback is
\* the identity on the files (src back with its content, dst with its
\* earlier content or absent again); the same holds when the rollback comes
\* from an abort command submitted after the Move.
C19_MoveRollbackIsIdentity ==
  [][/\ (/\ last'.op = "perform" /\ state = "RUNNING"
         /\ last'.id = Len(cmds) + 1
         /\ cmds'[last'.id].kind = "Move"
         /\ isfile(fs, cmds'[last'.id].src))
          => /\ exc' = NoError
             /\ ~isfile(fs', cmds'[last'.id].src)
             /\ fs'[cmds'[last'.id].target] = fs[cmds'[last'.id].src]
             /\ rollback(Cur', last'.id).exc = NoError
             /\ rollback(Cur', last'.id).fs = fs
     /\ (/\ last'.op = "exit" /\ last'.inx = "TransactionAbortError"
         /\ state = "RUNNING"
         /\ Len(cmds') = 2 /\ commands' = <<1, 2>>
         /\ cmds'[1].kind = "Move" /\ cmds'[2].kind = "Abort"
         /\ isfile(fs0, cmds'[1].src))
          => /\ exc' = NoError /\ state' = "ABORTED"
             /\ fs # fs0
             /\ fs' = fs0]_vars

C19_Witness ==
  /\ last.op = "exit" /\ last.inx = "TransactionAbortError"
  /\ state = "ABORTED" /\ exc = NoError
  /\ Len(cmds) = 2 /\ commands = <<1, 2>> /\ rbLog = <<2, 1>>
  /\ cmds[1].kind = "Move" /\ cmds[2].kind = "Abort"
  /\ isfile(fs0, cmds[1].src) /\ isfile(fs0, cmds[1].target)
  /\ fs = fs0

\* C20: a command whose perform failed is a no-op for the rollback sweep:
\* for a closure command whose supplied perform operation fails, the sweep
\* that revisits it does not call its supplied rollback operation and
\* raises no error.
C20_FailedPerformNotUndone ==
  \A i \in 1..Len(cmds) :
    (cmds[i].kind = "Closure" /\ cmds[i].pfail) => cmds[i].undone = 0

\* C21: when abort() runs on a RUNNING transaction, called explicitly or
\* triggered by scope exit, no rollback of the sweep signals a lifecycle
\* error, so the sweep never stops early and visits every history entry.
C21_SweepNeverRaises ==
  [][(/\ state = "RUNNING"
      /\ \/ last'.op = "abort"
         \/ /\ last'.op = "exit" /\ last'.inx # NoError
            /\ ~Propagates(last'.inx))
       => (exc' # "CommandError" /\ state' = "ABORTED"
             /\ rbLog' = Reversed(Len(commands)))]_vars

\* C22: in a transaction of fresh state-tracking command instances: in DONE
\* every history command is COMMITTED and none has had its rollback
\* applied; in ABORTED no history command is COMMITTED; and no command has
\* both its commit and its rollback applied.
C22_CommitAndRollbackExclusive ==
  Fresh(commands)
    => /\ state = "DONE"
            => \A k \in 1..Len(commands) :
                 OnTracked(commands[k])
                   => /\ cmds[commands[k]].st = "COMMITTED"
                      /\ cmds[commands[k]].undone = 0
       /\ state = "ABORTED"
            => \A k \in 1..Len(commands) :
                 OnTracked(commands[k]) => cmds[commands[k]].st # "COMMITTED"
       /\ \A i \in 1..Len(cmds) :
            ~(cmds[i].st = "COMMITTED" /\ cmds[i].undone > 0)

\* C23: a transaction has at most one staging directory in existence at any
\* time, every backup held by a history command lies inside the current
\* staging directory, and once every scope is left with the transaction
\* DONE or ABORTED no staging directory remains.
C23_OneStagingDirectory ==
  /\ Cardinality(dirs) <= 1
  /\ \A k \in 1..Len(commands) :
       commands[k] \in bf => cmds[commands[k]].tc = temp_dir
  /\ (state \in {"DONE", "ABORTED"} /\ depth = 0 /\ exc = NoError)
       => dirs = {}

\* ------------------------------------------------- start() and end()
\* The caller drives the transaction without a with statement: start(),
\* perform_command, abort(), end(); it catches what perform_command and
\* abort raise.

\* a return statement in a finally clause: the pending exception and any
\* earlier return value are discarded
FinallyReturn(r, v) == [r EXCEPT !.exc = NoError, !.ret = v]

\* except TransactionError: return False
ExceptTransactionError(r) ==
  IF r.exc = "TransactionError" THEN [r EXCEPT !.exc = NoError, !.ret = FALSE]
  ELSE r

\* Transaction.start (99-105)
Transaction_start(m) ==
  FinallyReturn(ExceptTransactionError(Transaction_enter(m)), TRUE)

\* Transaction.end (146-152)
Transaction_end(m) ==
  FinallyReturn(ExceptTransactionError(Transaction_exit(m, NoError)), TRUE)

\* the record of a start() or end() call: what __enter__ / __exit__ raised
\* and the returned value
Returned(op, e, r) == [op |-> op, inx |-> e, id |-> 0, ret |-> r]

\* transaction.start()
Start ==
  /\ exc = NoError
  /\ state \in {"INIT", "RUNNING"} => ndirs < MaxDirs
  /\ \E e \in {Transaction_enter(Cur).exc} :
       \E m \in {Transaction_start(Cur)} :
         /\ exc' = m.exc
         /\ Commit(m, depth, Returned("start", e, m.ret))

\* transaction.end()
End ==
  /\ exc = NoError
  /\ cleanups <= MaxDirs
  /\ \E e \in {Transaction_exit(Cur, NoError).exc} :
       \E m \in {Transaction_end(Cur)} :
         /\ exc' = m.exc
         /\ Commit(m, depth, Returned("end", e, m.ret))

NextStartEnd ==
  \/ Start
  \/ \E d \in Descs : SubmitNew(d)
  \/ \E i \in 1..Len(cmds) : Resubmit(i)
  \/ Abort
  \/ Catch
  \/ End

SpecStartEnd == Init /\ [][NextStartEnd]_vars

\* C24: start() returns false exactly when scope entry is rejected with a
\* usage error (state DONE or ABORTED) and true when the transaction became
\* RUNNING; end() returns false exactly when scope exit is rejected with a
\* usage error (state INIT) and true otherwise; neither lets a failure
\* escape to the caller.
C24_StartEndReportRejection ==
  [][/\ last'.op = "start"
          => /\ exc' = NoError
             /\ ~last'.ret <=> state \in {"DONE", "ABORTED"}
             /\ last'.ret => state' = "RUNNING"
     /\ last'.op = "end"
          => /\ exc' = NoError
             /\ ~last'.ret <=> state = "INIT"]_vars

====
